---- MODULE Spec2Model ----
(***************************************************************************)
(* Model of the monitoring state core of rust-system-monitor:               *)
(* src/src/app.rs (struct App and its handlers) driven by the command       *)
(* dispatch of src/src/main.rs (run_app).                                   *)
(*                                                                          *)
(* Conventions.  Vec indices are 0-based in the source and sequences are    *)
(* 1-based here, so row i of the source is processes[i + 1].  An f32 is a   *)
(* record [nan, v]: either NaN or the number v.  A String is the sequence   *)
(* of its bytes.  Ordering values are "Less", "Equal", "Greater"; the       *)
(* Option<Ordering> of partial_cmp adds "None".                             *)
(***************************************************************************)
EXTENDS Integers, Sequences, FiniteSets, TLC

VARIABLES
    app,             \* the fields of struct App that the handlers read or write
    system,          \* sysinfo System: the process map of the last refresh_all()
    disks,           \* sysinfo Disks: the disk list of the last refresh()
    ticks,           \* number of update() calls completed
    last_op,         \* the handler that ran last ("new" after construction)
    pre_sel,         \* selected row before the last handler: [index, pid] (pid 0: no row)
    term_requests,   \* pids on which the last handler called Process::kill
    provider_outcome,\* what Process::kill returned to the last handler
    returned,        \* what the last handler returned to run_app
    calls,           \* the calls the last update() or refresh() made, in order
    series_cap,      \* capacity of the series under test
    series,          \* the series under test
    appended,        \* every sample appended to the series under test, in order
    table,           \* the App whose process table is sorted on its own
    given,           \* the rows of that table as first given
    before,          \* the rows of that table before its last sort
    passes,          \* the sorts made on that table, in order
    pc,              \* where run_app stands: "poll", "check" or "exited" ("idle": handlers called directly)
    elapsed,         \* last_tick.elapsed() in time units, kept up to tick_rate
    waited,          \* how long event::poll blocked in this iteration of the loop
    overdue,         \* commands handled since the tick interval elapsed
    quit_seen        \* 'q' has been handled

vars == <<app, system, disks, ticks, last_op, pre_sel, term_requests,
          provider_outcome, returned, calls, series_cap, series, appended,
          table, given, before, passes, pc, elapsed, waited, overdue, quit_seen>>

seriesVars == <<series_cap, series, appended>>

sortVars == <<table, given, before, passes>>

loopVars == <<pc, elapsed, waited, overdue, quit_seen>>

(***************************************************************************)
(* Bounds                                                                   *)
(***************************************************************************)
MaxTicks == 2

LongTicks == 62

MaxCap == 3

MaxAppends == 4

MaxRows == 3

MaxPasses == 3

\* tick_rate (--interval) in time units
TickRate == 2

\* ticks followed in the event loop
MaxLoopTicks == 1

(***************************************************************************)
(* Program constants                                                        *)
(***************************************************************************)
CAP == 60

TabCount == 4

(***************************************************************************)
(* Values                                                                   *)
(***************************************************************************)
F32(n) == [nan |-> FALSE, v |-> n]

NaN == [nan |-> TRUE, v |-> 0]

SortBy == {"Pid", "Name", "Cpu", "Memory"}

Min(a, b) == IF a < b THEN a ELSE b

\* usize::saturating_sub
saturating_sub(a, b) == IF a >= b THEN a - b ELSE 0

(***************************************************************************)
(* The host: what the sysinfo provider can report                           *)
(***************************************************************************)
ProcessInfo(pid, name, cpu, memory, status, start) ==
    [pid |-> pid, name |-> name, cpu_usage |-> cpu, memory |-> memory,
     status |-> status, start_time |-> start]

\* Names "b", "a", "ab"; pid 3 has a NaN cpu reading and the memory of pid 2.
HostProcesses ==
    { ProcessInfo(1, <<98>>,     F32(1), 20, "Run",   7),
      ProcessInfo(2, <<97>>,     F32(5), 10, "Sleep", 5),
      ProcessInfo(3, <<97, 98>>, NaN,    10, "Run",   9) }

OneProcess == { p \in HostProcesses : p.pid = 1 }

\* The process maps the host can report over U: keyed by pid, so pids are distinct
ProcessMaps(U) == { S \in SUBSET U : \A p, q \in S : p.pid = q.pid => p = q }

\* The orders in which iterating a process map can yield its entries
IterationOrders(S) ==
    { s \in [1..Cardinality(S) -> S] : \A i, j \in 1..Cardinality(S) : i # j => s[i] # s[j] }

Disk(name, total, available) ==
    [name |-> name, total_space |-> total, available_space |-> available]

DiskSnapshots ==
    { <<>>,
      << Disk("sdb", 50, 50), Disk("sda", 100, 30) >> }

\* Global readings of the host at the n-th tick.
global_cpu_usage(n) == F32((n * 7) % 101)

total_memory == 16

used_memory(n) == (n * 5) % (total_memory + 1)

\* Networks at the n-th tick: cumulative counters per interface.
NetworkData(n) ==
    << [total_received |-> 2 * n, total_transmitted |-> n],
       [total_received |-> n,     total_transmitted |-> n] >>

(***************************************************************************)
(* Comparisons                                                              *)
(***************************************************************************)
\* Ord::cmp on u32 / u64
cmp(a, b) == IF a < b THEN "Less" ELSE IF a > b THEN "Greater" ELSE "Equal"

\* Ord::cmp on String: lexicographic on bytes, a proper prefix is smaller
RECURSIVE cmp_str(_, _)
cmp_str(a, b) ==
    IF a = <<>> /\ b = <<>> THEN "Equal"
    ELSE IF a = <<>> THEN "Less"
    ELSE IF b = <<>> THEN "Greater"
    ELSE IF Head(a) # Head(b) THEN cmp(Head(a), Head(b))
    ELSE cmp_str(Tail(a), Tail(b))

\* PartialOrd::partial_cmp on f32
partial_cmp(a, b) == IF a.nan \/ b.nan THEN "None" ELSE cmp(a.v, b.v)

\* Option::unwrap_or
unwrap_or(o, d) == IF o = "None" THEN d ELSE o

\* the closures of the ascending branches used for both directions
compare_ascending_only(by, ascending, a, b) ==
    CASE by = "Pid"    -> cmp(a.pid, b.pid)
      [] by = "Name"   -> cmp_str(a.name, b.name)
      [] by = "Cpu"    -> unwrap_or(partial_cmp(a.cpu_usage, b.cpu_usage), "Equal")
      [] by = "Memory" -> cmp(a.memory, b.memory)

\* The closure sort_processes hands to sort_by for (sort_by, sort_ascending)
compare(by, ascending, a, b) ==
    LET x == IF ascending THEN a ELSE b
        y == IF ascending THEN b ELSE a
    IN CASE by = "Pid"    -> cmp(x.pid, y.pid)
         [] by = "Name"   -> cmp_str(x.name, y.name)
         [] by = "Cpu"    -> unwrap_or(partial_cmp(x.cpu_usage, y.cpu_usage), "Equal")
         [] by = "Memory" -> cmp(x.memory, y.memory)

\* an insertion step that also moves x past the elements it is Equal to
RECURSIVE insert_tail_unstable(_, _, _, _)
insert_tail_unstable(s, x, by, ascending) ==
    IF s = <<>> THEN << x >>
    ELSE IF compare(by, ascending, x, s[Len(s)]) \in {"Less", "Equal"}
         THEN Append(insert_tail_unstable(SubSeq(s, 1, Len(s) - 1), x, by, ascending),
                     s[Len(s)])
         ELSE Append(s, x)

\* One insertion step of the stable sort: x moves left past every element it is Less than
RECURSIVE insert_tail(_, _, _, _)
insert_tail(s, x, by, ascending) ==
    IF s = <<>> THEN << x >>
    ELSE IF compare(by, ascending, x, s[Len(s)]) = "Less"
         THEN Append(insert_tail(SubSeq(s, 1, Len(s) - 1), x, by, ascending), s[Len(s)])
         ELSE Append(s, x)

\* slice::sort_by on a short slice: stable insertion sort, left to right
RECURSIVE sort_by(_, _, _)
sort_by(s, by, ascending) ==
    IF s = <<>> THEN <<>>
    ELSE insert_tail(sort_by(SubSeq(s, 1, Len(s) - 1), by, ascending),
                     s[Len(s)], by, ascending)

(***************************************************************************)
(* App                                                                      *)
(***************************************************************************)
\* App::new
new ==
    [processes        |-> <<>>,
     selected_process |-> 0,
     current_tab      |-> 0,
     sort_by          |-> "Cpu",
     sort_ascending   |-> FALSE,
     cpu_history      |-> <<>>,
     memory_history   |-> <<>>,
     network_history  |-> <<>>,
     disk_usage       |-> <<>>]

\* App::sort_processes
sort_processes(a) ==
    [a EXCEPT !.processes = sort_by(a.processes, a.sort_by, a.sort_ascending)]

\* update_processes without the repair of the selection
update_processes_unclamped(a, sys) == sort_processes([a EXCEPT !.processes = sys])

\* update_processes following the selected pid to its new row
update_processes_retargeted(a, sys) ==
    LET rebuilt == sort_processes([a EXCEPT !.processes = sys])
        old == IF a.selected_process < Len(a.processes)
               THEN a.processes[a.selected_process + 1].pid ELSE 0
        rows == { i \in 1..Len(rebuilt.processes) : rebuilt.processes[i].pid = old }
    IN IF rows # {}
       THEN [rebuilt EXCEPT !.selected_process = (CHOOSE i \in rows : TRUE) - 1]
       ELSE IF rebuilt.selected_process >= Len(rebuilt.processes)
            THEN [rebuilt EXCEPT !.selected_process = saturating_sub(Len(rebuilt.processes), 1)]
            ELSE rebuilt

\* App::update_processes; sys is self.system.processes() in iteration order
update_processes(a, sys) ==
    LET rebuilt == sort_processes([a EXCEPT !.processes = sys])
    IN IF rebuilt.selected_process >= Len(rebuilt.processes)
       THEN [rebuilt EXCEPT !.selected_process = saturating_sub(Len(rebuilt.processes), 1)]
       ELSE rebuilt

\* push without the eviction
push_history_unbounded(h, sample, cap) == Append(h, sample)

\* push evicting the newest sample instead of the oldest
push_history_drop_newest(h, sample, cap) ==
    LET pushed == Append(h, sample)
    IN IF Len(pushed) > cap THEN SubSeq(pushed, 1, Len(pushed) - 1) ELSE pushed

\* history.push(sample); if history.len() > cap { history.remove(0); }
push_history(h, sample, cap) ==
    LET pushed == Append(h, sample)
    IN IF Len(pushed) > cap THEN Tail(pushed) ELSE pushed

\* (used_memory as f32 / total_memory as f32) * 100.0, to the whole percent
memory_usage(used, total) ==
    IF total = 0 THEN NaN ELSE F32((used * 100) \div total)

\* App::update_system_metrics at the n-th tick
update_system_metrics(a, n) ==
    [a EXCEPT !.cpu_history = push_history(@, global_cpu_usage(n), CAP),
              !.memory_history =
                  push_history(@, memory_usage(used_memory(n), total_memory), CAP)]

\* The loop of update_network_stats over the interfaces
RECURSIVE sum_networks(_)
sum_networks(nets) ==
    IF nets = <<>> THEN << 0, 0 >>
    ELSE LET rest == sum_networks(Tail(nets))
         IN << Head(nets).total_received + rest[1],
               Head(nets).total_transmitted + rest[2] >>

\* App::update_network_stats at the n-th tick
update_network_stats(a, n) ==
    [a EXCEPT !.network_history = push_history(@, sum_networks(NetworkData(n)), CAP)]

\* update_disk_usage storing the available space as the used space
update_disk_usage_available(a, ds) ==
    [a EXCEPT !.disk_usage =
        [i \in 1..Len(ds) |->
            << ds[i].name, ds[i].available_space, ds[i].total_space >>]]

\* App::update_disk_usage; ds is the disk list of self.disks
update_disk_usage(a, ds) ==
    [a EXCEPT !.disk_usage =
        [i \in 1..Len(ds) |->
            << ds[i].name, ds[i].total_space - ds[i].available_space, ds[i].total_space >>]]

\* One call of a handler body.  The three provider refreshes assign no field
\* of the App: they make the host data (sys, ds, the n-th readings) current.
call(name, a, sys, ds, n) ==
    CASE name = "system.refresh_all"    -> a
      [] name = "networks.refresh"      -> a
      [] name = "disks.refresh"         -> a
      [] name = "update_processes"      -> update_processes(a, sys)
      [] name = "update_system_metrics" -> update_system_metrics(a, n)
      [] name = "update_network_stats"  -> update_network_stats(a, n)
      [] name = "update_disk_usage"     -> update_disk_usage(a, ds)

\* The statements of a handler body, executed first to last
RECURSIVE run(_, _, _, _, _)
run(body, a, sys, ds, n) ==
    IF body = <<>> THEN a
    ELSE run(Tail(body), call(Head(body), a, sys, ds, n), sys, ds, n)

\* update with the network sample taken before the system metrics
update_body_reordered ==
    << "system.refresh_all", "networks.refresh", "disks.refresh",
       "update_processes", "update_network_stats",
       "update_system_metrics", "update_disk_usage" >>

\* The body of App::update
update_body ==
    << "system.refresh_all", "networks.refresh", "disks.refresh",
       "update_processes", "update_system_metrics",
       "update_network_stats", "update_disk_usage" >>

\* refresh taking the samples of a tick as well
refresh_body_sampling ==
    << "system.refresh_all", "networks.refresh", "disks.refresh",
       "update_processes", "update_system_metrics", "update_network_stats" >>

\* The body of App::refresh
refresh_body ==
    << "system.refresh_all", "networks.refresh", "disks.refresh",
       "update_processes" >>

\* App::update at the n-th tick
update(a, sys, ds, n) == run(update_body, a, sys, ds, n)

\* App::refresh; it reads neither the disks nor the global readings
refresh(a, sys) == run(refresh_body, a, sys, <<>>, 0)

\* next_tab counting five tabs
next_tab_five(a) == [a EXCEPT !.current_tab = (a.current_tab + 1) % 5]

\* App::next_tab
next_tab(a) == [a EXCEPT !.current_tab = (a.current_tab + 1) % TabCount]

\* previous_tab stopping at the first tab
previous_tab_saturating(a) ==
    IF a.current_tab > 0
    THEN [a EXCEPT !.current_tab = a.current_tab - 1]
    ELSE a

\* App::previous_tab
previous_tab(a) ==
    IF a.current_tab > 0
    THEN [a EXCEPT !.current_tab = a.current_tab - 1]
    ELSE [a EXCEPT !.current_tab = 3]

\* next_process acting on the Processes tab only
next_process_on_tab(a) ==
    IF a.processes # <<>> /\ a.current_tab = 1
    THEN [a EXCEPT !.selected_process = (a.selected_process + 1) % Len(a.processes)]
    ELSE a

\* App::next_process
next_process(a) ==
    IF a.processes # <<>>
    THEN [a EXCEPT !.selected_process = (a.selected_process + 1) % Len(a.processes)]
    ELSE a

\* previous_process stopping at the first row
previous_process_saturating(a) ==
    IF a.processes # <<>> /\ a.selected_process > 0
    THEN [a EXCEPT !.selected_process = a.selected_process - 1]
    ELSE a

\* previous_process without the guard on the empty table
previous_process_unguarded(a) ==
    IF a.selected_process > 0
    THEN [a EXCEPT !.selected_process = a.selected_process - 1]
    ELSE [a EXCEPT !.selected_process = Len(a.processes) - 1]

\* App::previous_process
previous_process(a) ==
    IF a.processes # <<>>
    THEN IF a.selected_process > 0
         THEN [a EXCEPT !.selected_process = a.selected_process - 1]
         ELSE [a EXCEPT !.selected_process = Len(a.processes) - 1]
    ELSE a

\* toggle_sort without the re-sort
toggle_sort_unsorted(a) ==
    [a EXCEPT !.sort_by = CASE a.sort_by = "Pid"    -> "Name"
                            [] a.sort_by = "Name"   -> "Cpu"
                            [] a.sort_by = "Cpu"    -> "Memory"
                            [] a.sort_by = "Memory" -> "Pid"]

\* toggle_sort that also flips the direction
toggle_sort_flipping(a) ==
    sort_processes(
        [a EXCEPT !.sort_by = CASE a.sort_by = "Pid"    -> "Name"
                                [] a.sort_by = "Name"   -> "Cpu"
                                [] a.sort_by = "Cpu"    -> "Memory"
                                [] a.sort_by = "Memory" -> "Pid",
                  !.sort_ascending = ~a.sort_ascending])

\* toggle_sort moving the highlight back to the first row
toggle_sort_reselecting(a) ==
    [ sort_processes(
        [a EXCEPT !.sort_by = CASE a.sort_by = "Pid"    -> "Name"
                                [] a.sort_by = "Name"   -> "Cpu"
                                [] a.sort_by = "Cpu"    -> "Memory"
                                [] a.sort_by = "Memory" -> "Pid"])
      EXCEPT !.selected_process = 0 ]

\* App::toggle_sort
toggle_sort(a) ==
    sort_processes(
        [a EXCEPT !.sort_by = CASE a.sort_by = "Pid"    -> "Name"
                                [] a.sort_by = "Name"   -> "Cpu"
                                [] a.sort_by = "Cpu"    -> "Memory"
                                [] a.sort_by = "Memory" -> "Pid"])

\* kill resolving the selected index against the provider's map, not the table
kill_targets_from_provider(a, sys) ==
    LET pids == { p.pid : p \in sys }
        below(pid) == Cardinality({ q \in pids : q < pid })
    IN IF \E pid \in pids : below(pid) = a.selected_process
       THEN << CHOOSE pid \in pids : below(pid) = a.selected_process >>
       ELSE <<>>

\* App::kill_selected_process: the pids it calls Process::kill on
kill_targets(a, sys) ==
    IF a.processes # <<>> /\ a.selected_process < Len(a.processes)
    THEN LET pid == a.processes[a.selected_process + 1].pid
         IN IF \E p \in sys : p.pid = pid THEN << pid >> ELSE <<>>
    ELSE <<>>

\* kill dropping the selected row from the table at once
kill_selected_process_removing(a) ==
    IF a.processes # <<>> /\ a.selected_process < Len(a.processes)
    THEN [a EXCEPT !.processes =
             SubSeq(a.processes, 1, a.selected_process)
             \o SubSeq(a.processes, a.selected_process + 2, Len(a.processes))]
    ELSE a

\* App::kill_selected_process: its effect on the App (it assigns no field)
kill_selected_process(a) == a

(***************************************************************************)
(* Handlers as steps of run_app                                             *)
(***************************************************************************)
\* main.rs 74-76: tick_rate.checked_sub(last_tick.elapsed()).unwrap_or(0)
timeout(e) == saturating_sub(TickRate, e)

\* last_tick.elapsed() after d more time units.  run_app only compares it
\* with tick_rate, so it is kept up to tick_rate, and a draw or a handler
\* that takes d >= tick_rate is one that takes tick_rate.
later(e, d) == Min(e + d, TickRate)

\* The keys that call a handler of App
Commands == {"h", "l", "j", "k", "r", "s", "Delete"}

\* a quit that only ends the loop after the tick check
after_key_deferred(key) == "check"

\* a handled key that skips the tick check of its iteration
after_key_skipping(key) == IF key = "q" THEN "exited" ELSE "poll"

\* main.rs 82 and 96: 'q' returns from run_app, any other event falls
\* through to the tick check
after_key(key) == IF key = "q" THEN "exited" ELSE "check"

\* main.rs 78-93: event::poll(timeout) answers true after w <= timeout time
\* units, event::read() yields the event, the match arm runs for d time units.
\* With pc = "idle" the handler is called outside the loop.
Dispatch(key) ==
    IF pc = "idle"
    THEN UNCHANGED loopVars
    ELSE /\ pc = "poll"
         /\ \E w \in 0..timeout(elapsed), d \in 0..TickRate :
               /\ waited' = w
               /\ elapsed' = later(elapsed, w + d)
               /\ overdue' = IF key \in Commands /\ later(elapsed, w) >= TickRate
                             THEN overdue + 1 ELSE overdue
         /\ quit_seen' = (quit_seen \/ key = "q")
         /\ pc' = after_key(key)

\* main.rs 96-99 and 72: the interval has elapsed, update() runs,
\* last_tick = Instant::now(), and the next draw takes d time units.
TickDue ==
    IF pc = "idle"
    THEN UNCHANGED loopVars
    ELSE /\ pc = "check"
         /\ elapsed >= TickRate
         /\ \E d \in 0..TickRate : elapsed' = later(0, d)
         /\ overdue' = 0
         /\ waited' = 0
         /\ pc' = "poll"
         /\ UNCHANGED quit_seen

Selected(a) ==
    [index |-> a.selected_process,
     pid   |-> IF a.selected_process < Len(a.processes)
               THEN a.processes[a.selected_process + 1].pid ELSE 0]

\* What every handler but kill_selected_process leaves behind
Ran(op) ==
    /\ last_op' = op
    /\ calls' = CASE op = "update"  -> update_body
                [] op = "refresh" -> refresh_body
                [] OTHER          -> <<>>
    /\ pre_sel' = Selected(app)
    /\ term_requests' = <<>>
    /\ provider_outcome' = "none"
    /\ returned' = "unit"

\* main.rs: the tick, app.update().await
\* refresh_all() and the two refresh() calls replace the provider's data by
\* the host's current data.
Update(maps, bound) ==
    /\ ticks < bound
    /\ TickDue
    /\ \E sys \in maps, ds \in DiskSnapshots :
          /\ system' = sys
          /\ disks' = ds
          /\ \E order \in IterationOrders(sys) :
                app' = update(app, order, ds, ticks + 1)
    /\ ticks' = ticks + 1
    /\ Ran("update")
    /\ UNCHANGED <<seriesVars, sortVars>>

\* main.rs: 'r'
Refresh(maps) ==
    /\ Dispatch("r")
    /\ \E sys \in maps, ds \in DiskSnapshots :
          /\ system' = sys
          /\ disks' = ds
          /\ \E order \in IterationOrders(sys) :
                app' = refresh(app, order)
    /\ Ran("refresh")
    /\ UNCHANGED <<ticks, seriesVars, sortVars>>

\* main.rs: 'l' / Right
NextTab ==
    /\ Dispatch("l")
    /\ app' = next_tab(app)
    /\ Ran("next_tab")
    /\ UNCHANGED <<system, disks, ticks, seriesVars, sortVars>>

\* main.rs: 'h' / Left
PreviousTab ==
    /\ Dispatch("h")
    /\ app' = previous_tab(app)
    /\ Ran("previous_tab")
    /\ UNCHANGED <<system, disks, ticks, seriesVars, sortVars>>

\* main.rs: 'j' / Down
NextProcess ==
    /\ Dispatch("j")
    /\ app' = next_process(app)
    /\ Ran("next_process")
    /\ UNCHANGED <<system, disks, ticks, seriesVars, sortVars>>

\* main.rs: 'k' / Up
PreviousProcess ==
    /\ Dispatch("k")
    /\ app' = previous_process(app)
    /\ Ran("previous_process")
    /\ UNCHANGED <<system, disks, ticks, seriesVars, sortVars>>

\* main.rs: 's'
ToggleSort ==
    /\ Dispatch("s")
    /\ app' = toggle_sort(app)
    /\ Ran("toggle_sort")
    /\ UNCHANGED <<system, disks, ticks, seriesVars, sortVars>>

\* main.rs: Delete.  Process::kill answers true or false; the handler's
\* return type is (), and run_app uses the call as a statement.
KillSelectedProcess ==
    /\ Dispatch("Delete")
    /\ app' = kill_selected_process(app)
    /\ term_requests' = kill_targets(app, system)
    /\ IF kill_targets(app, system) = <<>>
       THEN provider_outcome' = "none"
       ELSE provider_outcome' \in {"true", "false"}
    /\ returned' = "unit"
    /\ last_op' = "kill_selected_process"
    /\ calls' = <<>>
    /\ pre_sel' = Selected(app)
    /\ UNCHANGED <<system, disks, ticks, seriesVars, sortVars>>

AppInit(maps) ==
    /\ app = new
    /\ calls = <<>>
    /\ system \in maps
    /\ disks \in DiskSnapshots
    /\ ticks = 0
    /\ last_op = "new"
    /\ pre_sel = [index |-> 0, pid |-> 0]
    /\ term_requests = <<>>
    /\ provider_outcome = "none"
    /\ returned = "unit"

SeriesIdle ==
    /\ series_cap = 1
    /\ series = <<>>
    /\ appended = <<>>

SortIdle ==
    /\ table = new
    /\ given = <<>>
    /\ before = <<>>
    /\ passes = <<>>

LoopIdle ==
    /\ pc = "idle"
    /\ elapsed = 0
    /\ waited = 0
    /\ overdue = 0
    /\ quit_seen = FALSE

Init == AppInit(ProcessMaps(HostProcesses)) /\ SeriesIdle /\ SortIdle /\ LoopIdle

Next ==
    \/ Update(ProcessMaps(HostProcesses), MaxTicks)
    \/ Refresh(ProcessMaps(HostProcesses))
    \/ NextTab
    \/ PreviousTab
    \/ NextProcess
    \/ PreviousProcess
    \/ ToggleSort
    \/ KillSelectedProcess

Spec == Init /\ [][Next]_vars

(***************************************************************************)
(* Long runs: the same handlers on a host with at most one process, for     *)
(* enough ticks to fill the history series                                  *)
(***************************************************************************)
InitLong == AppInit(ProcessMaps(OneProcess)) /\ SeriesIdle /\ SortIdle /\ LoopIdle

NextLong ==
    \/ Update(ProcessMaps(OneProcess), LongTicks)
    \/ Refresh(ProcessMaps(OneProcess))
    \/ NextTab
    \/ PreviousTab
    \/ NextProcess
    \/ PreviousProcess
    \/ ToggleSort
    \/ KillSelectedProcess

SpecLong == InitLong /\ [][NextLong]_vars

(***************************************************************************)
(* A history series on its own: any capacity up to MaxCap, any samples      *)
(***************************************************************************)
Samples == {10, 20, 30, 40}

AppendSample ==
    /\ Len(appended) < MaxAppends
    /\ \E x \in Samples :
          /\ series' = push_history(series, x, series_cap)
          /\ appended' = Append(appended, x)
    /\ UNCHANGED <<app, system, disks, ticks, last_op, pre_sel, term_requests,
                   provider_outcome, returned, calls, series_cap, sortVars,
                   loopVars>>

InitSeries ==
    /\ AppInit({{}})
    /\ series_cap \in 1..MaxCap
    /\ series = <<>>
    /\ appended = <<>>
    /\ SortIdle
    /\ LoopIdle

NextSeries == AppendSample

SpecSeries == InitSeries /\ [][NextSeries]_vars

(***************************************************************************)
(* The process table on its own: any rows, any key, either direction.      *)
(* sort_ascending is a pub field that no handler assigns; the sorts below   *)
(* set it and call sort_processes, and toggle_sort cycles the key.          *)
(***************************************************************************)
\* Names "b", "a", "ab", "a", "c"; pids 2 and 4 share name and cpu reading,
\* pids 2, 3 and 5 share memory, pid 3 has a NaN cpu reading.
SortRows ==
    { ProcessInfo(1, <<98>>,     F32(1), 20, "Run",   7),
      ProcessInfo(2, <<97>>,     F32(5), 10, "Sleep", 5),
      ProcessInfo(3, <<97, 98>>, NaN,    10, "Run",   9),
      ProcessInfo(4, <<97>>,     F32(5), 30, "Run",   3),
      ProcessInfo(5, <<99>>,     F32(7), 10, "Sleep", 8) }

\* Every sequence of at most n distinct rows of U
Tables(U, n) ==
    UNION { { t \in [1..k -> U] : \A i, j \in 1..k : i # j => t[i] # t[j] } : k \in 0..n }

\* self.sort_ascending = ascending; self.sort_processes()
sort_in_direction(a, ascending) ==
    sort_processes([a EXCEPT !.sort_ascending = ascending])

SortPass(op, sorted) ==
    /\ Len(passes) < MaxPasses
    /\ before' = table.processes
    /\ table' = sorted
    /\ passes' = Append(passes, op)
    /\ UNCHANGED <<app, system, disks, ticks, last_op, pre_sel, term_requests,
                   provider_outcome, returned, calls, seriesVars, given,
                   loopVars>>

SortAscending == SortPass("ascending", sort_in_direction(table, TRUE))

SortDescending == SortPass("descending", sort_in_direction(table, FALSE))

CycleSortKey == SortPass("toggle_sort", toggle_sort(table))

InitSort ==
    /\ AppInit({{}})
    /\ SeriesIdle
    /\ \E rows \in Tables(SortRows, MaxRows), by \in SortBy :
          /\ table = [new EXCEPT !.processes = rows, !.sort_by = by]
          /\ given = rows
          /\ before = rows
    /\ passes = <<>>
    /\ LoopIdle

NextSort ==
    \/ SortAscending
    \/ SortDescending
    \/ CycleSortKey

SpecSort == InitSort /\ [][NextSort]_vars

(***************************************************************************)
(* The event loop of run_app: the same handlers, called where the loop      *)
(* calls them.  Time is counted in units; a tick interval is TickRate units.*)
(***************************************************************************)
appVars == <<app, system, disks, ticks, last_op, pre_sel, term_requests,
             provider_outcome, returned, calls>>

\* main.rs: 'q'
Quit ==
    /\ Dispatch("q")
    /\ UNCHANGED <<appVars, seriesVars, sortVars>>

\* main.rs: any other key, a key release or repeat, a mouse or resize event
OtherEvent ==
    /\ Dispatch("other")
    /\ UNCHANGED <<appVars, seriesVars, sortVars>>

\* main.rs 78: event::poll(timeout) answers false once the timeout has passed
PollTimeout ==
    /\ pc = "poll"
    /\ waited' = timeout(elapsed)
    /\ elapsed' = later(elapsed, timeout(elapsed))
    /\ pc' = "check"
    /\ UNCHANGED <<overdue, quit_seen, appVars, seriesVars, sortVars>>

\* main.rs 96 and 72: the interval has not elapsed; the loop goes round and
\* the next draw takes d time units
NoTick ==
    /\ pc = "check"
    /\ elapsed < TickRate
    /\ \E d \in 0..TickRate : elapsed' = later(elapsed, d)
    /\ waited' = 0
    /\ pc' = "poll"
    /\ UNCHANGED <<overdue, quit_seen, appVars, seriesVars, sortVars>>

\* main.rs 69 and 72: last_tick = Instant::now(), then the first draw
InitLoop ==
    /\ AppInit({{}})
    /\ SeriesIdle
    /\ SortIdle
    /\ pc = "poll"
    /\ elapsed \in 0..TickRate
    /\ waited = 0
    /\ overdue = 0
    /\ quit_seen = FALSE

NextLoop ==
    \/ PollTimeout
    \/ Quit
    \/ PreviousTab
    \/ NextTab
    \/ NextProcess
    \/ PreviousProcess
    \/ Refresh({{}})
    \/ ToggleSort
    \/ KillSelectedProcess
    \/ OtherEvent
    \/ Update({{}}, MaxLoopTicks)
    \/ NoTick

\* A step of the loop during which the clock advances
TimePasses == NextLoop /\ elapsed' > elapsed

\* The thread keeps running the loop, and the clock does not stand still.
SpecLoop ==
    /\ InitLoop
    /\ [][NextLoop]_vars
    /\ WF_vars(NextLoop)
    /\ WF_vars(TimePasses)


(***************************************************************************)
(* Properties                                                               *)
(***************************************************************************)
Range(s) == { s[i] : i \in 1..Len(s) }

Rebuilds == {"update", "refresh"}

\* C1: in every reachable state a non-empty table has
\* 0 <= selected_process < number of rows, and an empty table has
\* selected_process = 0.
SelectionInBounds ==
    IF app.processes # <<>>
    THEN 0 <= app.selected_process /\ app.selected_process < Len(app.processes)
    ELSE app.selected_process = 0

\* A rebuild shrank the table from under the selection, which was clamped.
SelectionClamped ==
    /\ last_op \in Rebuilds
    /\ pre_sel.index = 2
    /\ Len(app.processes) = 1
    /\ app.selected_process = 0

\* C2: a manual refresh ends in the state a tick would end in from the same
\* state on the same snapshot, so it appends one sample to each history
\* series and replaces the disk usage.
RefreshIsUpdate ==
    [][last_op' = "refresh" =>
         \E order \in IterationOrders(system'), ds \in DiskSnapshots :
            app' = update(app, order, ds, ticks + 1)]_vars

\* C3: in every reachable state each of cpu_history, memory_history and
\* network_history has at most CAP = 60 samples.
HistoryBounded ==
    /\ Len(app.cpu_history) <= CAP
    /\ Len(app.memory_history) <= CAP
    /\ Len(app.network_history) <= CAP

\* More ticks than CAP have run, with a command after the last one.
HistoryFull ==
    /\ ticks > CAP
    /\ Len(app.cpu_history) = CAP
    /\ Len(app.memory_history) = CAP
    /\ Len(app.network_history) = CAP
    /\ last_op = "refresh"

\* C4: after n appends to a series of capacity C the series is the last
\* min(n, C) appended samples, oldest first.
SeriesIsRecentWindow ==
    LET n == Len(appended)
        m == Min(n, series_cap)
    IN series = [i \in 1..m |-> appended[n - m + i]]

\* Capacity 3; 10, 20, 30, 40 appended; [20, 30, 40] left.
SeriesScenario ==
    /\ series_cap = 3
    /\ appended = << 10, 20, 30, 40 >>
    /\ series = << 20, 30, 40 >>

\* a <= b on byte strings
StrLeq(a, b) ==
    \/ Len(a) <= Len(b) /\ \A i \in 1..Len(a) : a[i] = b[i]
    \/ \E k \in 1..Min(Len(a), Len(b)) :
          /\ \A i \in 1..(k - 1) : a[i] = b[i]
          /\ a[k] < b[k]

\* Row p may stand before row q when sorting ascending by the key; a NaN
\* cpu reading counts as equal to every other reading.
KeyLeq(by, p, q) ==
    CASE by = "Pid"    -> p.pid <= q.pid
      [] by = "Name"   -> StrLeq(p.name, q.name)
      [] by = "Cpu"    -> p.cpu_usage.nan \/ q.cpu_usage.nan \/ p.cpu_usage.v <= q.cpu_usage.v
      [] by = "Memory" -> p.memory <= q.memory

TableSorted ==
    \A i \in 1..(Len(app.processes) - 1) :
        IF app.sort_ascending
        THEN KeyLeq(app.sort_by, app.processes[i], app.processes[i + 1])
        ELSE KeyLeq(app.sort_by, app.processes[i + 1], app.processes[i])

\* C5: a rebuilt table holds exactly the records of the snapshot, and in
\* every reachable state each adjacent pair of rows is in the order of the
\* active sort key and direction.
TableExactAndSorted ==
    /\ []TableSorted
    /\ [][last_op' \in Rebuilds =>
            /\ Range(app'.processes) = system'
            /\ Len(app'.processes) = Cardinality(system')]_vars

\* toggle_sort has put a three-row table into another order.
TableResorted ==
    /\ last_op = "toggle_sort"
    /\ Len(app.processes) = 3
    /\ app.sort_by = "Memory"
    /\ app.processes[1].pid = 1
    /\ app.processes[3].pid = 3

\* h2 is h with exactly one sample x appended, the oldest evicted if need be
OneMoreSample(h, h2, x) ==
    \/ h2 = Append(h, x)
    \/ h # <<>> /\ h2 = Append(Tail(h), x)

\* C6: a tick makes its calls in the order snapshot, process table, cpu
\* and memory samples, network sample, disk usage, as one step, and appends
\* exactly one sample to each of the three series.
TickSequence ==
    [][last_op' = "update" =>
         /\ calls' = << "system.refresh_all", "networks.refresh", "disks.refresh",
                        "update_processes", "update_system_metrics",
                        "update_network_stats", "update_disk_usage" >>
         /\ app' = run(calls', app, app'.processes,
                       CHOOSE ds \in DiskSnapshots :
                           Len(ds) = Len(app'.disk_usage), ticks')
         /\ ticks' = ticks + 1
         /\ OneMoreSample(app.cpu_history, app'.cpu_history, global_cpu_usage(ticks'))
         /\ OneMoreSample(app.memory_history, app'.memory_history,
                          memory_usage(used_memory(ticks'), total_memory))
         /\ OneMoreSample(app.network_history, app'.network_history,
                          sum_networks(NetworkData(ticks')))
         /\ Range(app'.processes) = system'
         /\ SelectionInBounds'
         /\ \E ds \in DiskSnapshots : app'.disk_usage = update_disk_usage(app, ds).disk_usage]_vars

\* A second tick has run on a host with processes and disks.
SecondTick ==
    /\ last_op = "update"
    /\ ticks = 2
    /\ Len(app.cpu_history) = 2
    /\ Len(app.network_history) = 2
    /\ Len(app.processes) = 1
    /\ Len(app.disk_usage) = 2

\* C7: after a tick or a manual refresh the selected index is the old
\* index i if i < n, n - 1 if i >= n > 0, and 0 if n = 0, for a new table
\* of n rows, wherever the process selected before now stands.
SelectionPositional ==
    [][last_op' \in Rebuilds =>
         LET i == app.selected_process
             n == Len(app'.processes)
         IN app'.selected_process =
               IF i < n THEN i ELSE IF n > 0 THEN n - 1 ELSE 0]_vars

\* The process selected before the rebuild is in the new table on another
\* row, and the selection has kept its index.
SelectionLeftProcess ==
    /\ last_op \in Rebuilds
    /\ pre_sel.pid # 0
    /\ app.selected_process = pre_sel.index
    /\ \E r \in 1..Len(app.processes) :
          /\ app.processes[r].pid = pre_sel.pid
          /\ r - 1 # app.selected_process

\* C8: kill_selected_process changes no field of the App, whatever the
\* provider answers, and a row leaves the table only in a tick or a manual
\* refresh.
KillKeepsModel ==
    [][/\ last_op' = "kill_selected_process" => app' = app
       /\ Range(app'.processes) # Range(app.processes) => last_op' \in Rebuilds]_vars

\* The provider has confirmed a termination and the row is still there.
KilledRowStays ==
    /\ last_op = "kill_selected_process"
    /\ provider_outcome = "true"
    /\ Len(term_requests) = 1
    /\ \E r \in 1..Len(app.processes) : app.processes[r].pid = term_requests[1]

\* C9: on a non-empty table kill_selected_process makes one termination
\* request, for the pid of the selected row, and returns the provider's
\* answer to its caller.
KillReportsOutcome ==
    (last_op = "kill_selected_process" /\ app.processes # <<>>) =>
        /\ term_requests = << app.processes[app.selected_process + 1].pid >>
        /\ returned = provider_outcome

\* C10: on an empty table kill_selected_process makes no termination
\* request and changes no state.
KillOnEmptyIsNoOp ==
    [][(last_op' = "kill_selected_process" /\ app.processes = <<>>) =>
         /\ term_requests' = <<>>
         /\ provider_outcome' = "none"
         /\ app' = app
         /\ system' = system
         /\ ticks' = ticks]_vars

\* Delete pressed before the first tick, while the host has processes.
KilledOnEmpty ==
    /\ last_op = "kill_selected_process"
    /\ app.processes = <<>>
    /\ system # {}
    /\ ticks = 0
    /\ term_requests = <<>>

Last(s) == s[Len(s)]

Reverse(s) == [i \in 1..Len(s) |-> s[Len(s) + 1 - i]]

\* Rows p and q tie on the key: neither has to stand before the other
Tie(by, p, q) == KeyLeq(by, p, q) /\ KeyLeq(by, q, p)

NoTies(rows, by) ==
    \A i, j \in 1..Len(rows) : i < j => ~Tie(by, rows[i], rows[j])

RowOf(rows, pid) == CHOOSE i \in 1..Len(rows) : rows[i].pid = pid

\* C11: on rows without ties on the key, sorting ascending and then
\* descending by that key leaves exactly the reverse of the ascending
\* sequence.
OppositeSortsReverse ==
    ( /\ Len(passes) >= 2
      /\ passes[Len(passes) - 1] = "ascending"
      /\ passes[Len(passes)] = "descending"
      /\ NoTies(table.processes, table.sort_by) ) =>
        table.processes = Reverse(before)

\* Three rows with different cpu readings, given unsorted, sorted both ways.
ReversedByCpu ==
    /\ passes = << "ascending", "descending" >>
    /\ table.sort_by = "Cpu"
    /\ Len(table.processes) = 3
    /\ NoTies(table.processes, "Cpu")
    /\ given # before
    /\ given # table.processes

\* C12: a sort in either direction keeps the relative order of any two rows
\* that tie on the active key.
SortIsStable ==
    passes # <<>> =>
        \A i, j \in 1..Len(table.processes) :
            (i < j /\ Tie(table.sort_by, table.processes[i], table.processes[j])) =>
                RowOf(before, table.processes[i].pid) < RowOf(before, table.processes[j].pid)

\* Cpu readings 1, 5, 5 sorted descending: the 5s lead in their given
\* order, the 1 is last.
TiesKeptByCpu ==
    /\ passes = << "descending" >>
    /\ table.sort_by = "Cpu"
    /\ Len(given) = 3
    /\ [i \in 1..3 |-> given[i].pid] = << 1, 2, 4 >>
    /\ [i \in 1..3 |-> table.processes[i].pid] = << 2, 4, 1 >>

KeyCycle == << "Pid", "Name", "Cpu", "Memory" >>

NextKey(k) ==
    LET i == CHOOSE n \in 1..4 : KeyCycle[n] = k
    IN KeyCycle[(i % 4) + 1]

\* C14: toggle_sort moves the key one place along Pid, Name, Cpu, Memory,
\* Pid, four toggles bring the key back, and the direction stays.
KeyCycles ==
    /\ [](LET four == toggle_sort(toggle_sort(toggle_sort(toggle_sort(table))))
          IN /\ four.sort_by = table.sort_by
             /\ four.sort_ascending = table.sort_ascending)
    /\ [][(passes' # passes /\ Last(passes') = "toggle_sort") =>
            /\ table'.sort_by = NextKey(table.sort_by)
            /\ table'.sort_ascending = table.sort_ascending]_vars

\* An ascending table toggled from Memory round to Pid.
KeyWrapped ==
    /\ passes # <<>>
    /\ Last(passes) = "toggle_sort"
    /\ table.sort_by = "Pid"
    /\ table.sort_ascending
    /\ Len(table.processes) = 3

Moves == {"next_process", "previous_process"}

TabMoves == {"next_tab", "previous_tab"}

\* n calls of next_process
RECURSIVE forward(_, _)
forward(a, n) == IF n = 0 THEN a ELSE forward(next_process(a), n - 1)

\* n calls of previous_process
RECURSIVE backward(_, _)
backward(a, n) == IF n = 0 THEN a ELSE backward(previous_process(a), n - 1)

\* C15: on a table of N >= 1 rows, N forward moves and N backward moves
\* each return to the index they started from, a backward move from row 0
\* lands on row N - 1 and a forward move from row N - 1 on row 0.
SelectionCycles ==
    /\ [](app.processes # <<>> =>
            /\ forward(app, Len(app.processes)) = app
            /\ backward(app, Len(app.processes)) = app)
    /\ [][app.processes # <<>> =>
            /\ (last_op' = "previous_process" /\ app.selected_process = 0) =>
                  app'.selected_process = Len(app.processes) - 1
            /\ (last_op' = "next_process"
                  /\ app.selected_process = Len(app.processes) - 1) =>
                  app'.selected_process = 0]_vars

\* A backward move from the first of three rows.
WrappedBackward ==
    /\ last_op = "previous_process"
    /\ pre_sel.index = 0
    /\ Len(app.processes) = 3
    /\ app.selected_process = 2

\* C16: on an empty table next_process and previous_process leave
\* selected_process at 0 and change nothing else.
MoveOnEmptyIsNoOp ==
    [][(last_op' \in Moves /\ app.processes = <<>>) =>
         /\ app'.selected_process = 0
         /\ app' = app
         /\ system' = system
         /\ disks' = disks
         /\ ticks' = ticks]_vars

\* A backward move after a tick on a host without processes.
MovedOnEmptied ==
    /\ last_op = "previous_process"
    /\ ticks >= 1
    /\ system = {}
    /\ app.processes = <<>>
    /\ app.selected_process = 0

\* C17: next_tab takes tab pos to (pos + 1) mod 4 and previous_tab to
\* (pos + 3) mod 4, so four of either return to the tab and previous_tab
\* undoes next_tab.
TabsCycle ==
    /\ [](/\ next_tab(next_tab(next_tab(next_tab(app)))) = app
          /\ previous_tab(previous_tab(previous_tab(previous_tab(app)))) = app
          /\ previous_tab(next_tab(app)) = app)
    /\ [][/\ last_op' = "next_tab" =>
                app'.current_tab = (app.current_tab + 1) % 4
          /\ last_op' = "previous_tab" =>
                app'.current_tab = (app.current_tab + 3) % 4]_vars

\* previous_tab from Overview has landed on Disks.
TabWrappedBackward ==
    /\ last_op = "previous_tab"
    /\ app.current_tab = 3
    /\ ticks = 0

\* C18: the tab is 0 at startup, is one of 0, 1, 2, 3 in every reachable
\* state, and changes in next_tab and previous_tab only.
TabInRange ==
    /\ app.current_tab = 0
    /\ [](app.current_tab \in 0..3)
    /\ [][app'.current_tab # app.current_tab => last_op' \in TabMoves]_vars

\* A tick has run while the Network tab was shown.
TickedOnThirdTab ==
    /\ last_op = "update"
    /\ app.current_tab = 2
    /\ app.processes # <<>>

\* C19: next_process and previous_process move the selection the same way
\* on every tab and keep the tab; next_tab and previous_tab keep the
\* selection, the table and the sort key and direction.
SelectionIndependentOfTab ==
    [][/\ last_op' \in Moves =>
            LET n == Len(app.processes)
                i == app.selected_process
            IN /\ app'.current_tab = app.current_tab
               /\ app'.selected_process =
                     IF n = 0 THEN i
                     ELSE IF last_op' = "next_process" THEN (i + 1) % n
                     ELSE (i + n - 1) % n
       /\ last_op' \in TabMoves =>
            /\ app'.selected_process = app.selected_process
            /\ app'.processes = app.processes
            /\ app'.sort_by = app.sort_by
            /\ app'.sort_ascending = app.sort_ascending]_vars

\* The selection has moved forward while Overview was shown.
MovedOnOverview ==
    /\ last_op = "next_process"
    /\ app.current_tab = 0
    /\ pre_sel.index = 0
    /\ app.selected_process = 1

\* C20: after a tick disk_usage has one entry per disk the provider lists,
\* in the provider's order, with used = total - available <= total.
DiskUsageExact ==
    last_op = "update" =>
        /\ Len(app.disk_usage) = Len(disks)
        /\ \A i \in 1..Len(disks) :
              /\ app.disk_usage[i] =
                    << disks[i].name,
                       disks[i].total_space - disks[i].available_space,
                       disks[i].total_space >>
              /\ app.disk_usage[i][2] <= app.disk_usage[i][3]

\* A tick on a host whose second disk has total 100 and available 30.
DiskScenario ==
    /\ last_op = "update"
    /\ Len(disks) = 2
    /\ disks[2].total_space = 100
    /\ disks[2].available_space = 30
    /\ app.disk_usage = << << "sdb", 0, 50 >>, << "sda", 70, 100 >> >>

\* C23: in every reachable state the three history series have the same
\* length, min(CAP, number of ticks so far), and a step that changes any of
\* the three series is a tick.
SeriesFollowTicks ==
    /\ [](/\ Len(app.cpu_history) = Min(CAP, ticks)
          /\ Len(app.memory_history) = Min(CAP, ticks)
          /\ Len(app.network_history) = Min(CAP, ticks))
    /\ [][(\/ app'.cpu_history # app.cpu_history
           \/ app'.memory_history # app.memory_history
           \/ app'.network_history # app.network_history)
          => last_op' = "update" /\ ticks' = ticks + 1]_vars

\* One tick past the capacity, then a sort-key change: the series are full.
SeriesFullAfterCommand ==
    /\ ticks = CAP + 1
    /\ last_op = "toggle_sort"
    /\ Len(app.cpu_history) = CAP
    /\ Len(app.memory_history) = CAP
    /\ Len(app.network_history) = CAP

\* C24: toggle_sort leaves selected_process unchanged and only permutes the
\* rows of the table: the same records, none added, none removed.
ToggleSortPermutes ==
    [][last_op' = "toggle_sort" =>
          /\ app'.selected_process = app.selected_process
          /\ Len(app'.processes) = Len(app.processes)
          /\ \A r \in Range(app.processes) \cup Range(app'.processes) :
                Cardinality({ i \in 1..Len(app'.processes) : app'.processes[i] = r })
                = Cardinality({ i \in 1..Len(app.processes) : app.processes[i] = r })]_vars

\* A sort-key change kept the highlight on the second row, which now shows
\* another process.
HighlightKeptRowChanged ==
    /\ last_op = "toggle_sort"
    /\ pre_sel.index = 1
    /\ app.selected_process = 1
    /\ pre_sel.pid # 0
    /\ Selected(app).pid # pre_sel.pid

\* C21: once 'q' has been handled run_app has returned and no step changes
\* the model any more; handling 'q' itself changes nothing in the model and
\* runs no tick, whether or not the interval has elapsed; and every tick
\* that starts runs the whole of update() before the next event is polled.
QuitExitsAtOnce ==
    /\ [](quit_seen => pc = "exited")
    /\ [][quit_seen' => UNCHANGED <<appVars, seriesVars, sortVars>>]_vars
    /\ [][ticks' # ticks =>
             /\ pc = "check" /\ pc' = "poll"
             /\ calls' = update_body
             /\ \E order \in IterationOrders(system') :
                   app' = update(app, order, disks', ticks')]_vars

\* 'q' was handled after the tick interval had elapsed, one tick and one
\* manual refresh into the run.
QuitWhenTickDue ==
    /\ quit_seen
    /\ pc = "exited"
    /\ elapsed >= TickRate
    /\ ticks = 1
    /\ last_op = "refresh"

\* C22: event::poll never blocks longer than what is left of the tick
\* interval; once the interval has elapsed at most one command is handled
\* before update() runs; and unless 'q' is handled every tick is followed by
\* another one.
TickNotStarved ==
    /\ [][pc = "poll" => waited' <= saturating_sub(TickRate, elapsed)]_vars
    /\ [](overdue <= 1)
    /\ [][pc = "check" /\ elapsed >= TickRate => ticks' = ticks + 1]_vars
    /\ \A n \in 0..(MaxLoopTicks - 1) :
          (ticks = n /\ ~quit_seen) ~> (ticks = n + 1 \/ quit_seen)

\* A command was handled after the interval had elapsed, and the tick is
\* about to run.
CommandWhenTickDue ==
    /\ pc = "check"
    /\ overdue = 1
    /\ elapsed >= TickRate
    /\ waited = 0
    /\ ticks = 0
    /\ last_op = "next_tab"

====
